---- MODULE Spec2Model ----
(***************************************************************************)
(* LED sequence controller of DAY002 (src/src/led.rs, src/src/config.rs).  *)
(* The controller is a record of its three private fields; the operations  *)
(* of its impl block are operators over that record, and the actions below *)
(* are a client exercising them on one controller the way the unit tests   *)
(* of led.rs do: construct, advance, query, convert.                       *)
(***************************************************************************)
EXTENDS Integers, Naturals, FiniteSets, Sequences, TLC

\* ---- config.rs ----------------------------------------------------------
LED_COUNT == 4
SEQUENCE_DELAY_MS == 250
MIN_SEQUENCE_DELAY_MS == 10
MAX_SEQUENCE_DELAY_MS == 5000

\* ---- bounds of the exploration -----------------------------------------
\* advance calls per constructed controller
MaxAdvances == 12
\* largest index handed to led_state (indices >= LED_COUNT are out of range)
MaxIndex == 7
\* largest led_count of a controller written as a struct literal
MaxCount == 3
\* ticks of the host loop that are counted; the loop itself goes on
MaxTicks == 16

\* ---- usize ------------------------------------------------------------
\* width of usize on the firmware's target (32-bit Cortex-M33 of the RP2350)
USIZE_BITS == 32
\* usize::MAX is 2^USIZE_BITS - 1; it is compared by halves of the word
HALF_WORD == 2 ^ (USIZE_BITS \div 2)

\* x + 1 does not fit a usize: x = usize::MAX
add_one_overflows(x) ==
    /\ x \div HALF_WORD = HALF_WORD - 1
    /\ x % HALF_WORD = HALF_WORD - 1

\* ---- led.rs: enum LedState ----------------------------------------------
LedState == {"On", "Off"}

\* "no value yet" for the client's locals
NoValue == -1
NoState == "none"

\* ---- led.rs: LedSequenceController --------------------------------------
\* a Default obtained by deriving it: every field zero
default_derived == [current_index |-> 0, led_count |-> 0, delay_ms |-> 0]

\* a constructor with the count left at zero
new_zero_count ==
    [current_index |-> 0, led_count |-> 0, delay_ms |-> SEQUENCE_DELAY_MS]

\* a constructor taking the delay for microseconds
new_delay_micros ==
    [current_index |-> 0, led_count |-> LED_COUNT,
     delay_ms |-> SEQUENCE_DELAY_MS * 1000]

\* LedSequenceController::new()
new ==
    [current_index |-> 0, led_count |-> LED_COUNT, delay_ms |-> SEQUENCE_DELAY_MS]

\* <LedSequenceController as Default>::default(): delegates to new()
default == new

\* the getters
current_index(self) == self.current_index
led_count(self) == self.led_count
delay_ms(self) == self.delay_ms

\* advance without the modulus
advance_nowrap(self) ==
    [self  |-> [self EXCEPT !.current_index = self.current_index + 1],
     ret   |-> self.current_index + 1,
     panic |-> FALSE, overflow |-> FALSE]

\* advance stepping by two
advance_skip(self) ==
    IF self.led_count = 0
    THEN [self |-> self, ret |-> NoValue, panic |-> TRUE, overflow |-> FALSE]
    ELSE [self  |-> [self EXCEPT !.current_index =
                        (self.current_index + 2) % self.led_count],
          ret   |-> (self.current_index + 2) % self.led_count,
          panic |-> FALSE, overflow |-> FALSE]

\* advance wrapping one position early
advance_short_cycle(self) ==
    IF self.led_count - 1 = 0
    THEN [self |-> self, ret |-> NoValue, panic |-> TRUE, overflow |-> FALSE]
    ELSE [self  |-> [self EXCEPT !.current_index =
                        (self.current_index + 1) % (self.led_count - 1)],
          ret   |-> (self.current_index + 1) % (self.led_count - 1),
          panic |-> FALSE, overflow |-> FALSE]

\* advance that never wraps back within a multi-cycle run
advance_long_cycle(self) ==
    [self  |-> [self EXCEPT !.current_index =
                    (self.current_index + 1) % (2 * self.led_count)],
     ret   |-> (self.current_index + 1) % (2 * self.led_count),
     panic |-> FALSE, overflow |-> FALSE]

\* advance storing the new index in the field next to current_index
advance_wrong_field(self) ==
    IF self.led_count = 0
    THEN [self |-> self, ret |-> NoValue, panic |-> TRUE, overflow |-> FALSE]
    ELSE [self  |-> [self EXCEPT !.led_count =
                        (self.current_index + 1) % self.led_count],
          ret   |-> (self.current_index + 1) % self.led_count,
          panic |-> FALSE, overflow |-> FALSE]

\* advance stopping at the last position instead of wrapping
advance_clamped(self) ==
    IF self.led_count = 0
    THEN [self |-> self, ret |-> NoValue, panic |-> TRUE, overflow |-> FALSE]
    ELSE [self  |-> [self EXCEPT !.current_index =
                        IF self.current_index + 1 < self.led_count
                        THEN self.current_index + 1
                        ELSE self.led_count - 1],
          ret   |-> IF self.current_index + 1 < self.led_count
                    THEN self.current_index + 1
                    ELSE self.led_count - 1,
          panic |-> FALSE, overflow |-> FALSE]

\* advance returning the index it had before the step
advance_stale_ret(self) ==
    IF self.led_count = 0
    THEN [self |-> self, ret |-> NoValue, panic |-> TRUE, overflow |-> FALSE]
    ELSE [self  |-> [self EXCEPT !.current_index =
                        (self.current_index + 1) % self.led_count],
          ret   |-> self.current_index,
          panic |-> FALSE, overflow |-> FALSE]

\* LedSequenceController::advance(&mut self) -> usize
\*   self.current_index = (self.current_index + 1) % self.led_count;
\*   self.current_index
\* A remainder by zero panics; the controller is then left as it was.
\* current_index + 1 overflowing panics in a build with overflow checks and
\* wraps to 0 in a build without: the result then carries the wrapped
\* outcome and overflow = TRUE, and the caller's build decides.
advance(self) ==
    IF self.led_count = 0
    THEN [self |-> self, ret |-> NoValue, panic |-> TRUE, overflow |-> FALSE]
    ELSE IF add_one_overflows(self.current_index)
    THEN [self  |-> [self EXCEPT !.current_index = 0 % self.led_count],
          ret   |-> 0 % self.led_count,
          panic |-> FALSE, overflow |-> TRUE]
    ELSE [self  |-> [self EXCEPT !.current_index =
                        (self.current_index + 1) % self.led_count],
          ret   |-> (self.current_index + 1) % self.led_count,
          panic |-> FALSE, overflow |-> FALSE]

\* led_state lighting every index up to the current one
led_state_upto(self, index) ==
    IF index <= self.current_index THEN "On" ELSE "Off"

\* led_state reducing the index modulo the count first
led_state_mod(self, index) ==
    IF self.led_count # 0 /\ index % self.led_count = self.current_index
    THEN "On" ELSE "Off"

\* LedSequenceController::led_state(&self, index) -> LedState
led_state(self, index) ==
    IF index = self.current_index THEN "On" ELSE "Off"

\* led_state_to_level with the levels swapped (active-low wiring)
led_state_to_level_inverted(state) == state # "On"

\* led_state_to_level(state) -> bool:  matches!(state, LedState::On)
led_state_to_level(state) == state = "On"

\* ---- state --------------------------------------------------------------
VARIABLES
    ctrl,       \* the controller
    ctor,       \* which constructor built it: "new" or "default"
    panicked,   \* the client thread has panicked
    advances,   \* advance calls made on ctrl since it was constructed
    ret,        \* value returned by the latest advance call
    mark,       \* a position read from ctrl by current_index()
    since,      \* advance calls made since mark was read
    q_index,    \* argument of the latest led_state call
    q_pos,      \* current_index at the time of that call
    q_state,    \* its result
    lvl_in,     \* argument of the latest led_state_to_level call
    lvl_out,    \* its result
    obs,        \* <<led_count(), delay_ms()>> as last read by the client
    trail       \* positions read before each advance call made on ctrl

\* a second controller, for clients that hold two
VARIABLES
    other,          \* the second controller
    other_base,     \* its position when it was constructed or copied
    other_advances, \* advance calls made on it since then
    other_ret       \* value returned by its latest advance call

\* the host loop of main.rs
VARIABLES
    pc,         \* statement the loop is at
    pins,       \* level of the output pins led0..led3
    written,    \* pin writes of the current tick: <<pin, level>>, in order
    tick_pos,   \* current_index at the start of the current tick
    timer,      \* "idle", "armed" (awaited) or "fired"
    timer_ms,   \* duration handed to the latest Timer::after_millis
    ticks       \* completed ticks, counted up to MaxTicks

clientVars == <<ctrl, ctor, panicked, advances, ret, mark, since,
                q_index, q_pos, q_state, lvl_in, lvl_out, obs, trail>>
pairVars == <<other, other_base, other_advances, other_ret>>
hostVars == <<pc, pins, written, tick_pos, timer, timer_ms, ticks>>

vars == <<clientVars, pairVars, hostVars>>

Pins == 0..(LED_COUNT - 1)

\* no second controller in use: it stays a fresh, untouched value
PairIdle ==
    /\ other = new
    /\ other_base = 0
    /\ other_advances = 0
    /\ other_ret = NoValue

\* the host loop is not running: outputs as Output::new leaves them
HostIdle ==
    /\ pc = "off"
    /\ pins = [i \in Pins |-> "Low"]
    /\ written = << >>
    /\ tick_pos = 0
    /\ timer = "idle"
    /\ timer_ms = 0
    /\ ticks = 0

Indices == 0..MaxIndex

Init ==
    /\ \E c \in {"new", "default"} :
          /\ ctor = c
          /\ ctrl = IF c = "new" THEN new ELSE default
    /\ panicked = FALSE
    /\ advances = 0
    /\ ret = NoValue
    /\ mark = current_index(ctrl)
    /\ since = 0
    /\ q_index = NoValue
    /\ q_pos = NoValue
    /\ q_state = NoState
    /\ lvl_in = NoState
    /\ lvl_out = FALSE
    /\ obs = << >>
    /\ trail = << >>
    /\ PairIdle
    /\ HostIdle

\* let mut ctrl = LedSequenceController::new();
ConstructNew ==
    /\ ~panicked
    /\ ctrl' = new
    /\ ctor' = "new"
    /\ advances' = 0
    /\ mark' = current_index(ctrl')
    /\ since' = 0
    /\ trail' = << >>
    /\ UNCHANGED <<panicked, ret, q_index, q_pos, q_state, lvl_in, lvl_out>>
    /\ UNCHANGED <<obs, pairVars, hostVars>>

\* let mut ctrl = LedSequenceController::default();
ConstructDefault ==
    /\ ~panicked
    /\ ctrl' = default
    /\ ctor' = "default"
    /\ advances' = 0
    /\ mark' = current_index(ctrl')
    /\ since' = 0
    /\ trail' = << >>
    /\ UNCHANGED <<panicked, ret, q_index, q_pos, q_state, lvl_in, lvl_out>>
    /\ UNCHANGED <<obs, pairVars, hostVars>>

\* let r = ctrl.advance();
Advance ==
    /\ ~panicked
    /\ advances < MaxAdvances
    /\ \E overflow_checks \in BOOLEAN :
          LET r == advance(ctrl)
              p == r.panic \/ (r.overflow /\ overflow_checks)
          IN  /\ ctrl' = IF p THEN ctrl ELSE r.self
              /\ panicked' = p
              /\ ret' = IF p THEN ret ELSE r.ret
    /\ advances' = advances + 1
    /\ since' = since + 1
    /\ trail' = Append(trail, current_index(ctrl))
    /\ UNCHANGED <<ctor, mark, q_index, q_pos, q_state, lvl_in, lvl_out>>
    /\ UNCHANGED <<obs, pairVars, hostVars>>

\* let p = ctrl.current_index();
ReadIndex ==
    /\ ~panicked
    /\ mark' = current_index(ctrl)
    /\ since' = 0
    /\ UNCHANGED <<ctrl, ctor, panicked, advances, ret,
                   q_index, q_pos, q_state, lvl_in, lvl_out>>
    /\ UNCHANGED <<obs, trail, pairVars, hostVars>>

\* let n = ctrl.led_count(); let d = ctrl.delay_ms();
ReadConfig ==
    /\ ~panicked
    /\ obs' = <<led_count(ctrl), delay_ms(ctrl)>>
    /\ UNCHANGED <<ctrl, ctor, panicked, advances, ret, mark, since,
                   q_index, q_pos, q_state, lvl_in, lvl_out>>
    /\ UNCHANGED <<trail, pairVars, hostVars>>

\* let s = ctrl.led_state(index);
QueryLedState ==
    /\ ~panicked
    /\ \E index \in Indices :
          /\ q_index' = index
          /\ q_pos' = current_index(ctrl)
          /\ q_state' = led_state(ctrl, index)
    /\ UNCHANGED <<ctrl, ctor, panicked, advances, ret, mark, since,
                   lvl_in, lvl_out>>
    /\ UNCHANGED <<obs, trail, pairVars, hostVars>>

\* let level = led_state_to_level(state);
ToLevel ==
    /\ ~panicked
    /\ \E state \in LedState :
          /\ lvl_in' = state
          /\ lvl_out' = led_state_to_level(state)
    /\ UNCHANGED <<ctrl, ctor, panicked, advances, ret, mark, since,
                   q_index, q_pos, q_state>>
    /\ UNCHANGED <<obs, trail, pairVars, hostVars>>

Next ==
    \/ ConstructNew
    \/ ConstructDefault
    \/ Advance
    \/ ReadIndex
    \/ ReadConfig
    \/ QueryLedState
    \/ ToLevel

Spec == Init /\ [][Next]_vars

\* ---- advance and led_state over controllers of any count ----------------
\* The impl block works on whatever the three fields hold; here the client
\* starts from a struct literal
\*   LedSequenceController { current_index: p, led_count: n, delay_ms: .. }
\* with 1 <= n <= MaxCount and p < n, as the tests of led.rs write one.
InitCount ==
    /\ \E n \in 1..MaxCount :
          \E p \in 0..(n - 1) :
             ctrl = [current_index |-> p, led_count |-> n,
                     delay_ms |-> SEQUENCE_DELAY_MS]
    /\ ctor = "literal"
    /\ panicked = FALSE
    /\ advances = 0
    /\ ret = NoValue
    /\ mark = current_index(ctrl)
    /\ since = 0
    /\ q_index = NoValue
    /\ q_pos = NoValue
    /\ q_state = NoState
    /\ lvl_in = NoState
    /\ lvl_out = FALSE
    /\ obs = << >>
    /\ trail = << >>
    /\ PairIdle
    /\ HostIdle

NextCount ==
    \/ Advance
    \/ ReadIndex
    \/ QueryLedState

SpecCount == InitCount /\ [][NextCount]_vars

\* ---- a client holding two controllers ----------------------------------
\* let ctrl2 = LedSequenceController::new();
ConstructOther ==
    /\ ~panicked
    /\ other' = new
    /\ other_base' = current_index(other')
    /\ other_advances' = 0
    /\ UNCHANGED <<other_ret, clientVars, hostVars>>

\* let ctrl2 = ctrl1;   (LedSequenceController is Copy)
CopyToOther ==
    /\ ~panicked
    /\ other' = ctrl
    /\ other_base' = current_index(other')
    /\ other_advances' = 0
    /\ UNCHANGED <<other_ret, clientVars, hostVars>>

\* ctrl2.advance() reaching ctrl1 as well, as if ctrl2 were a reference
AdvanceOther_aliased ==
    /\ ~panicked
    /\ other_advances < MaxAdvances
    /\ LET r == advance(other) IN
          /\ other' = r.self
          /\ ctrl' = r.self
          /\ other_ret' = r.ret
    /\ other_advances' = other_advances + 1
    /\ UNCHANGED <<other_base, hostVars>>
    /\ UNCHANGED <<ctor, panicked, advances, ret, mark, since,
                   q_index, q_pos, q_state, lvl_in, lvl_out, obs, trail>>

\* let r = ctrl2.advance();
AdvanceOther ==
    /\ ~panicked
    /\ other_advances < MaxAdvances
    /\ \E overflow_checks \in BOOLEAN :
          LET r == advance(other)
              p == r.panic \/ (r.overflow /\ overflow_checks)
          IN  /\ other' = IF p THEN other ELSE r.self
              /\ panicked' = p
              /\ other_ret' = IF p THEN other_ret ELSE r.ret
    /\ other_advances' = other_advances + 1
    /\ UNCHANGED <<other_base, hostVars>>
    /\ UNCHANGED <<ctrl, ctor, advances, ret, mark, since,
                   q_index, q_pos, q_state, lvl_in, lvl_out, obs, trail>>

NextPair ==
    \/ Advance
    \/ AdvanceOther
    \/ ConstructOther
    \/ CopyToOther

SpecPair == Init /\ [][NextPair]_vars

\* ---- main.rs: the host loop ---------------------------------------------
\* The state on entering `loop`: the four outputs created with Level::Low
\* and the controller constructed by new().
InitMain ==
    /\ ctrl = new
    /\ ctor = "new"
    /\ panicked = FALSE
    /\ advances = 0
    /\ ret = NoValue
    /\ mark = current_index(ctrl)
    /\ since = 0
    /\ q_index = NoValue
    /\ q_pos = NoValue
    /\ q_state = NoState
    /\ lvl_in = NoState
    /\ lvl_out = FALSE
    /\ obs = << >>
    /\ trail = << >>
    /\ PairIdle
    /\ pc = "led0"
    /\ pins = [i \in Pins |-> "Low"]
    /\ written = << >>
    /\ tick_pos = current_index(ctrl)
    /\ timer = "idle"
    /\ timer_ms = 0
    /\ ticks = 0

\* the statement rendering led<i>, and the one that follows it
LedPc(i) == <<"led0", "led1", "led2", "led3">>[i + 1]
AfterLed(i) == IF i + 1 < LED_COUNT THEN LedPc(i + 1) ELSE "sleep"

\* every block testing led_state(0), as copied from the first one
RenderLed_copied_index(i) ==
    /\ pc = LedPc(i)
    /\ LET state == led_state(ctrl, 0)
           level == led_state_to_level(state)
       IN  /\ pins' = [pins EXCEPT ![i] = IF level THEN "High" ELSE "Low"]
           /\ written' = Append(written, <<i, level>>)
           /\ q_index' = 0
           /\ q_pos' = current_index(ctrl)
           /\ q_state' = state
           /\ lvl_in' = state
           /\ lvl_out' = level
    /\ pc' = AfterLed(i)
    /\ UNCHANGED <<ctrl, ctor, panicked, advances, ret, mark, since, obs, trail>>
    /\ UNCHANGED <<tick_pos, timer, timer_ms, ticks, pairVars>>

\* the blocks without their else branch: a pin is only ever set high
RenderLed_no_else(i) ==
    /\ pc = LedPc(i)
    /\ LET state == led_state(ctrl, i)
           level == led_state_to_level(state)
       IN  /\ pins' = [pins EXCEPT ![i] = IF level THEN "High" ELSE @]
           /\ written' = Append(written, <<i, level>>)
           /\ q_index' = i
           /\ q_pos' = current_index(ctrl)
           /\ q_state' = state
           /\ lvl_in' = state
           /\ lvl_out' = level
    /\ pc' = AfterLed(i)
    /\ UNCHANGED <<ctrl, ctor, panicked, advances, ret, mark, since, obs, trail>>
    /\ UNCHANGED <<tick_pos, timer, timer_ms, ticks, pairVars>>

\* if led_state_to_level(controller.led_state(i)) { led<i>.set_high(); }
\* else { led<i>.set_low(); }
RenderLed(i) ==
    /\ pc = LedPc(i)
    /\ LET state == led_state(ctrl, i)
           level == led_state_to_level(state)
       IN  /\ pins' = [pins EXCEPT ![i] = IF level THEN "High" ELSE "Low"]
           /\ written' = Append(written, <<i, level>>)
           /\ q_index' = i
           /\ q_pos' = current_index(ctrl)
           /\ q_state' = state
           /\ lvl_in' = state
           /\ lvl_out' = level
    /\ pc' = AfterLed(i)
    /\ UNCHANGED <<ctrl, ctor, panicked, advances, ret, mark, since, obs, trail>>
    /\ UNCHANGED <<tick_pos, timer, timer_ms, ticks, pairVars>>

\* the loop body with advance() placed before the wait
StartWait_after_advance ==
    /\ pc = "sleep"
    /\ ctrl' = advance(ctrl).self
    /\ timer' = "armed"
    /\ timer_ms' = delay_ms(ctrl)
    /\ pc' = "wait"
    /\ UNCHANGED <<ctor, panicked, advances, ret, mark, since,
                   q_index, q_pos, q_state, lvl_in, lvl_out, obs, trail>>
    /\ UNCHANGED <<pins, written, tick_pos, ticks, pairVars>>

\* the wait taking the time of a whole sequence, delay_ms for each LED
StartWait_per_sequence ==
    /\ pc = "sleep"
    /\ timer' = "armed"
    /\ timer_ms' = delay_ms(ctrl) * LED_COUNT
    /\ pc' = "wait"
    /\ UNCHANGED <<pins, written, tick_pos, ticks, clientVars, pairVars>>

\* Timer::after_millis(controller.delay_ms()).await  -- the task reads the
\* delay, arms the timer and suspends
StartWait ==
    /\ pc = "sleep"
    /\ timer' = "armed"
    /\ timer_ms' = delay_ms(ctrl)
    /\ pc' = "wait"
    /\ UNCHANGED <<pins, written, tick_pos, ticks, clientVars, pairVars>>

\* the interval has elapsed: the timer fires and the task is resumed
TimerExpires ==
    /\ pc = "wait"
    /\ timer = "armed"
    /\ timer' = "fired"
    /\ pc' = "advance"
    /\ UNCHANGED <<pins, written, tick_pos, timer_ms, ticks,
                   clientVars, pairVars>>

\* controller.advance();  -- the value returned is dropped; the next
\* iteration of the loop, the next tick, begins
HostAdvance ==
    /\ pc = "advance"
    /\ ~panicked
    /\ \E overflow_checks \in BOOLEAN :
          LET r == advance(ctrl)
              p == r.panic \/ (r.overflow /\ overflow_checks)
          IN  /\ ctrl' = IF p THEN ctrl ELSE r.self
              /\ panicked' = p
              /\ pc' = IF p THEN "halted" ELSE "led0"
    /\ written' = << >>
    /\ tick_pos' = current_index(ctrl')
    /\ timer' = "idle"
    /\ ticks' = IF ticks < MaxTicks THEN ticks + 1 ELSE ticks
    /\ UNCHANGED <<ctor, advances, ret, mark, since,
                   q_index, q_pos, q_state, lvl_in, lvl_out, obs, trail>>
    /\ UNCHANGED <<pins, timer_ms, pairVars>>

NextMain ==
    \/ \E i \in Pins : RenderLed(i)
    \/ StartWait
    \/ TimerExpires
    \/ HostAdvance

SpecMain == InitMain /\ [][NextMain]_vars

\* The loop under its scheduling: main is the only task of the executor,
\* so each statement it has reached is eventually executed, and the time
\* driver eventually fires a timer that has been armed.
SpecMainFair ==
    /\ InitMain
    /\ [][NextMain]_vars
    /\ WF_vars(\E i \in Pins : RenderLed(i))
    /\ WF_vars(StartWait)
    /\ WF_vars(TimerExpires)
    /\ WF_vars(HostAdvance)

TypeOK ==
    /\ ctrl \in [current_index : Nat, led_count : Nat, delay_ms : Nat]
    /\ ctor \in {"new", "default", "literal"}
    /\ panicked \in BOOLEAN
    /\ advances \in 0..MaxAdvances
    /\ since \in 0..MaxAdvances

\* ---- properties ---------------------------------------------------------

\* C1: in every reachable state of the controller, after construction and
\* after any number of advance calls, 0 <= current_index < led_count.
IndexWithinBounds ==
    /\ 0 <= current_index(ctrl)
    /\ current_index(ctrl) < led_count(ctrl)

\* the last position, reached again after the first wrap
IndexWithinBoundsWitness ==
    /\ advances > LED_COUNT
    /\ current_index(ctrl) = led_count(ctrl) - 1

\* C2: in every reachable state exactly one index i in [0, led_count) has
\* led_state(i) = On, and every other index of that range has Off.
ExactlyOneOn ==
    LET range == 0..(led_count(ctrl) - 1)
        on    == {i \in range : led_state(ctrl, i) = "On"}
    IN  /\ Cardinality(on) = 1
        /\ \A i \in range \ on : led_state(ctrl, i) = "Off"

\* a controller advanced past the wrap, its single On at index 1
ExactlyOneOnWitness ==
    /\ advances = LED_COUNT + 1
    /\ led_state(ctrl, 1) = "On"
    /\ led_state(ctrl, 0) = "Off"

\* C3: from position p, an advance call sets the position to
\* (p + 1) mod led_count and returns that new position, the value
\* current_index() gives right after the call.
AdvanceReturnsNewPosition ==
    [][advances' = advances + 1 =>
          /\ current_index(ctrl') =
                (current_index(ctrl) + 1) % led_count(ctrl)
          /\ ret' = current_index(ctrl')]_vars

\* the advance that wraps from the last position has returned 0
AdvanceReturnsNewPositionWitness ==
    /\ advances = LED_COUNT
    /\ ret = 0
    /\ current_index(ctrl) = 0

\* C4: cycle closure: led_count advance calls made from a position p lead
\* back to p.
CycleClosure ==
    since = led_count(ctrl) => current_index(ctrl) = mark

\* one full cycle made from position 2
CycleClosureWitness ==
    /\ since = led_count(ctrl)
    /\ mark = 2
    /\ current_index(ctrl) = 2

\* whole cycles that fit into the advance calls made on one controller
MaxCycles == MaxAdvances \div LED_COUNT

\* C5: for every k >= 0, led_count * k advance calls made from a position p
\* leave the position at p; with k = 0 nothing is called and nothing moves.
WholeCyclesKeepPosition ==
    \A k \in 0..MaxCycles :
        since = led_count(ctrl) * k => current_index(ctrl) = mark

\* two full cycles made from position 3
WholeCyclesKeepPositionWitness ==
    /\ since = led_count(ctrl) * 2
    /\ mark = 3
    /\ current_index(ctrl) = 3

\* C6: after n advance calls on a freshly constructed controller,
\* current_index() = n mod LED_COUNT.
IndexIsAdvancesModCount ==
    current_index(ctrl) = advances % LED_COUNT

\* ten advance calls: two wraps, then position 2
IndexIsAdvancesModCountWitness ==
    /\ advances = 10
    /\ current_index(ctrl) = 2

ConstructionState ==
    /\ advances = 0 =>
          /\ current_index(ctrl) = 0
          /\ led_count(ctrl) = 4
          /\ delay_ms(ctrl) = 250
          /\ ctrl = new
    /\ default = new
    /\ LED_COUNT = 4
    /\ SEQUENCE_DELAY_MS = 250

\* a controller built by default() after an earlier one had been advanced
ConstructionStateWitness ==
    /\ ctor = "default"
    /\ advances = 0
    /\ ret # NoValue

\* C9: for every index, in range or not, led_state(index) is On iff index
\* = current_index; every index >= led_count gives Off; the call never
\* fails.
LedStateOnIffCurrent ==
    /\ \A i \in Indices :
          /\ led_state(ctrl, i) \in LedState
          /\ led_state(ctrl, i) = "On" <=> i = current_index(ctrl)
          /\ i >= led_count(ctrl) => led_state(ctrl, i) = "Off"
    /\ q_index # NoValue =>
          /\ q_state \in LedState
          /\ q_state = "On" <=> q_index = q_pos
    /\ ~panicked

\* an out-of-range index queried on an advanced controller gave Off
LedStateOnIffCurrentWitness ==
    /\ advances > 0
    /\ q_index >= led_count(ctrl)
    /\ q_state = "Off"

\* C10: led_state_to_level maps On to true and Off to false, whatever the
\* controller's state and whatever was called before.
LevelOfState ==
    /\ led_state_to_level("On") = TRUE
    /\ led_state_to_level("Off") = FALSE
    /\ lvl_in # NoState => lvl_out = (lvl_in = "On")

\* Off converted to low after the controller had been advanced
LevelOfStateWitness ==
    /\ advances > 0
    /\ lvl_in = "Off"
    /\ lvl_out = FALSE

\* C11: two controllers, constructed independently or one a copy of the
\* other, never see each other's advance calls: an advance on one leaves
\* every field of the other unchanged, and the position of each is its
\* starting position plus the number of its own advance calls, mod count.
ControllersIndependent ==
    /\ [](/\ current_index(ctrl) = advances % led_count(ctrl)
          /\ current_index(other) =
                (other_base + other_advances) % led_count(other))
    /\ [][/\ advances' = advances + 1 => other' = other
          /\ other_advances' = other_advances + 1 => ctrl' = ctrl]_vars

\* a copy taken at position 3 and advanced twice, the original advanced on
ControllersIndependentWitness ==
    /\ other_base = 3
    /\ other_advances = 2
    /\ current_index(other) = 1
    /\ advances = 6
    /\ current_index(ctrl) = 2

\* C12: led_count and delay_ms are fixed at construction: an advance call
\* changes current_index only, the queries current_index, led_count,
\* delay_ms and led_state change nothing, and after any sequence of
\* operations led_count and delay_ms have their constructed values.
ConfigurationFixed ==
    /\ [](/\ led_count(ctrl) = LED_COUNT
          /\ delay_ms(ctrl) = SEQUENCE_DELAY_MS
          /\ obs # << >> => obs = <<LED_COUNT, SEQUENCE_DELAY_MS>>)
    /\ [][/\ advances' = advances + 1 =>
                ctrl' = [ctrl EXCEPT !.current_index = current_index(ctrl')]
          /\ advances' = advances => ctrl' = ctrl]_vars

\* count and delay read back unchanged after three advance calls
ConfigurationFixedWitness ==
    /\ advances = 3
    /\ obs = <<LED_COUNT, SEQUENCE_DELAY_MS>>
    /\ mark = 3
    /\ since = 0

\* led_state of the indices 0..3, in order
PositionStates == [i \in 1..LED_COUNT |-> led_state(ctrl, i - 1)]

\* C13: with count 4 and start position 0 the states of the indices 0..3
\* are [On,Off,Off,Off]; after one advance [Off,On,Off,Off]; after four
\* advances in total [On,Off,Off,Off] again.
ScenarioCountFour ==
    /\ advances = 0 => PositionStates = <<"On", "Off", "Off", "Off">>
    /\ advances = 1 => PositionStates = <<"Off", "On", "Off", "Off">>
    /\ advances = 4 => PositionStates = <<"On", "Off", "Off", "Off">>

\* index 0 queried On after the fourth advance
ScenarioCountFourWitness ==
    /\ led_count(ctrl) = 4
    /\ advances = 4
    /\ q_index = 0
    /\ q_pos = 0
    /\ q_state = "On"
    /\ ret = 0

\* C14: with count 1 every advance leaves the position at 0 and returns
\* 0, and position 0 reports On in every state.
ScenarioCountOne ==
    led_count(ctrl) = 1 =>
        /\ current_index(ctrl) = 0
        /\ advances > 0 => ret = 0
        /\ led_state(ctrl, 0) = "On"
        /\ ~panicked

\* a controller of count 1 advanced three times and queried at index 0
ScenarioCountOneWitness ==
    /\ led_count(ctrl) = 1
    /\ advances = 3
    /\ ret = 0
    /\ q_index = 0
    /\ q_state = "On"

\* C15: advance is total on every reachable state: its remainder is never
\* taken by zero and current_index + 1 never leaves the usize range, so no
\* advance call panics or wraps around the word.
AdvanceIsTotal ==
    /\ ~panicked
    /\ led_count(ctrl) # 0
    /\ ~add_one_overflows(current_index(ctrl))
    /\ current_index(ctrl) + 1 <= led_count(ctrl)
    /\ led_count(ctrl) < HALF_WORD
    /\ ~advance(ctrl).panic
    /\ ~advance(ctrl).overflow

\* the largest position, where current_index + 1 = led_count, in the
\* third cycle
AdvanceIsTotalWitness ==
    /\ advances = 2 * LED_COUNT + 3
    /\ current_index(ctrl) + 1 = led_count(ctrl)
    /\ ret = LED_COUNT - 1
    /\ ~panicked

\* C16: in every reachable state delay_ms lies within
\* [MIN_SEQUENCE_DELAY_MS, MAX_SEQUENCE_DELAY_MS] = [10, 5000].
DelayWithinConfigRange ==
    /\ MIN_SEQUENCE_DELAY_MS = 10
    /\ MAX_SEQUENCE_DELAY_MS = 5000
    /\ MIN_SEQUENCE_DELAY_MS <= delay_ms(ctrl)
    /\ delay_ms(ctrl) <= MAX_SEQUENCE_DELAY_MS

\* the delay read from an advanced controller
DelayWithinConfigRangeWitness ==
    /\ advances = 1
    /\ obs # << >>
    /\ obs[2] = delay_ms(ctrl)

\* C17: every tick of the host loop is ordered render, wait, advance: the
\* position changes only once the wait of the tick has completed, the wait
\* starts only when all four outputs have been written, and nothing is
\* written and the position stays as it is while rendering or waiting.
TickOrder ==
    [][/\ current_index(ctrl') # current_index(ctrl) =>
            /\ timer = "fired"
            /\ Len(written) = LED_COUNT
       /\ (timer # "armed" /\ timer' = "armed") =>
            /\ Len(written) = LED_COUNT
            /\ {written[k][1] : k \in 1..Len(written)} = Pins
            /\ ctrl' = ctrl
       /\ timer = "armed" =>
            /\ ctrl' = ctrl
            /\ written' = written
       /\ Len(written') > Len(written) =>
            /\ timer = "idle"
            /\ timer' = "idle"
            /\ ctrl' = ctrl]_vars

\* the sixth tick has rendered and waited and is about to advance
TickOrderWitness ==
    /\ ticks = 5
    /\ pc = "advance"
    /\ timer = "fired"
    /\ Len(written) = LED_COUNT
    /\ current_index(ctrl) = 1

\* the writes a tick makes when it starts at position p
TickWrites(p) ==
    [k \in 1..LED_COUNT |->
        <<k - 1,
          led_state_to_level(
              led_state([ctrl EXCEPT !.current_index = p], k - 1))>>]

\* C18: in each tick every one of the four pins is written exactly once,
\* in the order 0, 1, 2, 3, with the level led_state_to_level(led_state(i))
\* taken at the position the tick started with.
PinsWrittenOncePerTick ==
    /\ Len(written) <= LED_COUNT
    /\ \A k \in 1..Len(written) : written[k] = TickWrites(tick_pos)[k]
    /\ pc \in {"sleep", "wait", "advance"} => written = TickWrites(tick_pos)
    /\ pc \in {"led0", "led1", "led2", "led3"} =>
          pc = LedPc(Len(written))

\* the seventh tick, at position 2, has written its four pins
PinsWrittenOncePerTickWitness ==
    /\ ticks = 6
    /\ pc = "wait"
    /\ written = << <<0, FALSE>>, <<1, FALSE>>, <<2, TRUE>>, <<3, FALSE>> >>

\* C19: whenever the host loop is suspended at the timer wait, the pin of
\* index current_index is high and the other three pins are low.
PinsAgreeDuringWait ==
    timer = "armed" =>
        pins = [i \in Pins |->
                   IF i = current_index(ctrl) THEN "High" ELSE "Low"]

\* waiting in the eighth tick with led3 lit
PinsAgreeDuringWaitWitness ==
    /\ ticks = 7
    /\ timer = "armed"
    /\ pc = "wait"
    /\ pins[3] = "High"

\* the pins that are high
HighPins == {i \in Pins : pins[i] = "High"}

\* C20 as stated: at every point of the host loop's execution, between
\* the pin writes of a render pass and across the wrap from position 3 to
\* position 0 included, at most one of the four pins is high.
AtMostOneHigh == Cardinality(HighPins) <= 1

\* the render pass that follows the wrap from position 3 to position 0,
\* from the write of led0 until the write of led3
WrapRenderPass ==
    /\ ticks > 0
    /\ current_index(ctrl) = 0
    /\ Len(written) \in 1..(LED_COUNT - 1)
    /\ pc \in {"led1", "led2", "led3"}

\* C20 as amended: at every point of the host loop's execution at most
\* one pin is high, except in the render pass that follows the wrap from
\* position 3 to position 0: there led0 is set high before led3 is set
\* low, and from the write of led0 until the write of led3 exactly the
\* pins 0 and 3 are high.
AtMostOneHighOutsideWrap ==
    /\ WrapRenderPass => HighPins = {0, LED_COUNT - 1}
    /\ ~WrapRenderPass => Cardinality(HighPins) <= 1

\* led0 and led3 both high while led2 is about to be written
AtMostOneHighOutsideWrapWitness ==
    /\ pc = "led2"
    /\ ticks = 4
    /\ HighPins = {0, 3}

\* C21: the host loop has no terminal state: given that every timer wait
\* eventually completes, advance is called infinitely often and every
\* position in [0, count) is the active position, its LED lit during the
\* wait, infinitely often.
LoopRunsForever ==
    /\ [](pc # "halted")
    /\ []<><<HostAdvance>>_vars
    /\ \A p \in Pins :
          []<>(/\ current_index(ctrl) = p
               /\ timer = "armed"
               /\ pins[p] = "High")

\* led3 lit during the wait of the twelfth tick, its third time
LoopRunsForeverWitness ==
    /\ ticks = 11
    /\ current_index(ctrl) = 3
    /\ timer = "armed"
    /\ pins[3] = "High"

\* C22: positions are visited in cyclic order, none skipped and none
\* repeated: from a fresh controller the positions read before successive
\* advance calls are 0, 1, ..., count-1, 0, ..., and any count consecutive
\* advance calls start from every position of [0, count) exactly once.
CyclicVisitOrder ==
    LET count == led_count(ctrl) IN
    /\ Len(trail) = advances
    /\ \A k \in 1..Len(trail) : trail[k] = (k - 1) % count
    /\ current_index(ctrl) = Len(trail) % count
    /\ \A j \in 0..(Len(trail) - count) :
          /\ {trail[j + k] : k \in 1..count} = 0..(count - 1)
          /\ \A k1, k2 \in 1..count :
                trail[j + k1] = trail[j + k2] => k1 = k2

\* nine advance calls, started from 0,1,2,3,0,1,2,3,0
CyclicVisitOrderWitness ==
    /\ advances = 9
    /\ trail = <<0, 1, 2, 3, 0, 1, 2, 3, 0>>
    /\ current_index(ctrl) = 1

WaitIsControllerDelay ==
    /\ SEQUENCE_DELAY_MS = 250
    /\ delay_ms(ctrl) = SEQUENCE_DELAY_MS
    /\ timer \in {"armed", "fired"} => timer_ms = delay_ms(ctrl)
    /\ (ticks > 0 \/ timer # "idle") => timer_ms = SEQUENCE_DELAY_MS

\* the tenth tick waiting 250 ms
WaitIsControllerDelayWitness ==
    /\ ticks = 9
    /\ pc = "wait"
    /\ timer = "armed"
    /\ timer_ms = 250

====
